---- MODULE Spec2Model ----
(***************************************************************************)
(* Model of the Tinymovr DFU host tool (studio/Python/tinymovr/dfu.py):    *)
(* spawn, compare_bin_w_device, calculate_local_checksum, read_nvm_region, *)
(* write_nvm_region and upload_bin, run against a device that answers      *)
(* read_flash_32, write_scratch_32, commit, erase_all and reset.           *)
(*                                                                         *)
(* A 32-bit word is the pair <<lo, hi>> of its 16-bit halves               *)
(* (value = lo + 65536 * hi), so that sums wrap at 2^32 exactly.           *)
(* Every device operation the tool issues is appended to ops.              *)
(***************************************************************************)
EXTENDS Integers, Sequences, FiniteSets, TLC

\* ---------------------------------------------------------------- bounds
\* longest image file, in bytes
MaxImageLen == 32
\* number of 16-byte chunks of the NVM region (the device has 512)
NvmChunks == 2
\* largest number of failed addressing attempts followed in recovery mode
MaxAttempts == 3

\* ------------------------------------------------------------- constants
BIN_CHUNK_SIZE == 4
FLASH_START_ADDR == 4096
NVM_START_ADDR == 122880
NVM_SIZE == NvmChunks * 16

\* ------------------------------------------------------------ word helpers
Half == 65536
ERASED_WORD == <<65535, 65535>>
ZERO_WORD == <<0, 0>>

Min(a, b) == IF a < b THEN a ELSE b

\* Python s[a:b] on a sequence (0-based, clamped to the length)
Slice(s, a, b) == SubSeq(s, Min(a, Len(s)) + 1, Min(b, Len(s)))

\* a mutant of int_from_bytes: big-endian byte order
int_from_bytes_big(bs) ==
    LET n == Len(bs)
        b(j) == IF j >= 1 /\ j <= n THEN bs[j] ELSE 0
    IN  IF n = 0 THEN ZERO_WORD
        ELSE IF n = 1 THEN <<b(1), 0>>
        ELSE IF n = 2 THEN <<b(2) + 256 * b(1), 0>>
        ELSE IF n = 3 THEN <<b(3) + 256 * b(2), b(1)>>
        ELSE <<b(4) + 256 * b(3), b(2) + 256 * b(1)>>

\* int.from_bytes(bs, byteorder="little") for at most four bytes
int_from_bytes(bs) ==
    LET b(j) == IF j <= Len(bs) THEN bs[j] ELSE 0
    IN  <<b(1) + 256 * b(2), b(3) + 256 * b(4)>>

\* value.to_bytes(4, byteorder="little")
int_to_bytes(v) ==
    <<v[1] % 256, v[1] \div 256, v[2] % 256, v[2] \div 256>>

\* word i (0..3) of a chunk: int.from_bytes(chunk[i*4:(i+1)*4], "little")
ChunkWord(chunk, i) == int_from_bytes(Slice(chunk, i * 4, (i + 1) * 4))

\* a mutant of FileValue: the bytes are taken big-endian
FileValue_big(chunk, i) == int_from_bytes_big(Slice(chunk, i * 4, (i + 1) * 4))

\* compare's file_value for word i of the chunk
FileValue(chunk, i) == int_from_bytes(Slice(chunk, i * 4, (i + 1) * 4))

\* a mutant of ScratchValue: the words of a chunk go out in reverse order
ScratchValue_reversed(chunk, i) ==
    int_from_bytes(Slice(chunk, (3 - i) * 4, (4 - i) * 4))

\* a mutant of ScratchValue: every register gets the first word of the chunk
ScratchValue_first(chunk, i) == int_from_bytes(Slice(chunk, 0, 4))

\* the value written to scratch register i for the chunk
ScratchValue(chunk, i) == int_from_bytes(Slice(chunk, i * 4, (i + 1) * 4))

\* (w1 + w2 + w3 + w4) & 0xFFFFFFFF
Sum32(ws) ==
    LET lo == ws[1][1] + ws[2][1] + ws[3][1] + ws[4][1]
        hi == ws[1][2] + ws[2][2] + ws[3][2] + ws[4][2] + (lo \div Half)
    IN  <<lo % Half, hi % Half>>

\* a mutant of calculate_local_checksum: the carry out of the low half is lost
calculate_local_checksum_nocarry(chunk) ==
    LET ws == [k \in 1..BIN_CHUNK_SIZE |-> ChunkWord(chunk, k - 1)]
    IN  <<(ws[1][1] + ws[2][1] + ws[3][1] + ws[4][1]) % Half,
          (ws[1][2] + ws[2][2] + ws[3][2] + ws[4][2]) % Half>>

\* lines 82-88
calculate_local_checksum(chunk) ==
    Sum32([k \in 1..BIN_CHUNK_SIZE |-> ChunkWord(chunk, k - 1)])

\* all(b == 0xFF for b in bs)
AllFF(bs) == \A j \in 1..Len(bs) : bs[j] = 255

\* a mutant of FileRead: a remainder of fewer than 16 bytes reads as end of file
FileRead_whole(img, pos) ==
    IF pos + BIN_CHUNK_SIZE * 4 <= Len(img)
    THEN Slice(img, pos, pos + BIN_CHUNK_SIZE * 4) ELSE <<>>

\* bin_file.read(BIN_CHUNK_SIZE * 4) at file position pos
FileRead(img, pos) == Slice(img, pos, pos + BIN_CHUNK_SIZE * 4)

\* -------------------------------------------------------------- the device
ImgChunks == (MaxImageLen + 15) \div 16
ProgAddrs == {FLASH_START_ADDR + 4 * k : k \in 0..(4 * ImgChunks - 1)}
NvmAddrs == {NVM_START_ADDR + 4 * k : k \in 0..((NVM_SIZE \div 4) - 1)}
Addrs == ProgAddrs \cup NvmAddrs

\* checksum the device computes over the four scratch registers
DeviceChecksum(scr) == Sum32([k \in 1..4 |-> scr[k - 1]])

\* a checksum that disagrees with the right one
WrongChecksum(c) == <<(c[1] + 1) % Half, c[2]>>

\* flash after commit(addr): the four scratch words land at addr..addr+12
DeviceCommit(fl, scr, addr) ==
    [a \in Addrs |->
        IF a >= addr /\ a < addr + 16 /\ (a - addr) % 4 = 0
        THEN scr[(a - addr) \div 4] ELSE fl[a]]

\* flash after a successful erase_all
DeviceErased == [a \in Addrs |-> ERASED_WORD]

\* ---------------------------------------------------------------- state
VARIABLES
    recovery,     \* arguments["--recovery"]
    bin_path,     \* arguments["--bin"]: "none", "missing" or "file"
    force,        \* arguments["--force"]
    no_reset,     \* arguments["--no-reset"]
    image,        \* the bytes of the .bin file from offset file_base on
    file_base,    \* bytes of the .bin file before image[1], read and programmed
                  \* before the first state (0 when the run starts at spawn)
    flash,        \* device flash, address -> word
    scratch,      \* device scratch registers 0..3
    seed_ok,      \* the device session accepts the seeded commit/erase_all
    pc,           \* position of the program
    caller,       \* who called the NVM functions: "upload_bin" or "roundtrip"
    string,       \* compare_bin_w_device's string argument
    chunk,        \* current chunk (compare, program, restore)
    filepos,      \* read position of bin_file, counted from file_base
    flash_addr,   \* flash_addr of the running loop
    i,            \* inner loop index
    data,         \* read_nvm_region's bytearray
    nvm_data,     \* upload_bin's nvm_data: [some |-> BOOLEAN, val |-> bytes]
    nvm_orig,     \* NVM region bytes when the run began (never read by the program)
    chunk_idx,    \* write_nvm_region's chunk_idx
    cmp_ret,      \* value returned by each compare ("none" before it returns)
    attempts,     \* failed addressing attempts in the recovery loop
    device,       \* the handle create_device returned: the number of the
                  \* attempt that produced it, 0 while unbound
    raised,       \* exception that ended the run, "" if none
    exit_code,    \* process exit status, -1 while running
    printed,      \* the messages printed so far
    ops           \* device operations issued so far

vars == <<recovery, bin_path, force, no_reset, image, file_base, flash, scratch, seed_ok,
          pc, caller, string, chunk, filepos, flash_addr, i, data, nvm_data,
          nvm_orig, chunk_idx, cmp_ret, attempts, device, raised, exit_code,
          printed, ops>>

argVars == <<recovery, bin_path, force, no_reset, image, file_base, seed_ok, caller,
             nvm_orig>>

None == [some |-> FALSE, val |-> <<>>]
Some(b) == [some |-> TRUE, val |-> b]

\* one entry of ops
Op(name, ph, addr, val, words, ret, outcome) ==
    [op |-> name, phase |-> ph, addr |-> addr, val |-> val, words |-> words,
     ret |-> ret, outcome |-> outcome]

\* ------------------------------------------------------------------ inputs
PatMixed == <<1, 2, 3, 4,  255, 255, 255, 255,  0, 0, 0, 128,  254, 255, 255, 255>>
PatErased == <<255, 255, 255, 255,  255, 255, 255, 255,
               255, 255, 255, 255,  255, 255, 255, 255>>
PatConfig == <<17, 34, 51, 68,  255, 255, 255, 255,  0, 0, 0, 0,  255, 255, 255, 127>>

ImagePatterns == {PatMixed, PatErased}
NvmPatterns == {PatConfig, PatErased}

RECURSIVE Concat(_, _)
Concat(f, n) == IF n = 0 THEN <<>> ELSE Concat(f, n - 1) \o f[n]

Images ==
    {Slice(Concat(f, ImgChunks), 0, L) :
        f \in [1..ImgChunks -> ImagePatterns], L \in 0..MaxImageLen}

NvmContents == {Concat(f, NvmChunks) : f \in [1..NvmChunks -> NvmPatterns]}

\* a word that differs from w: in the low half for even d, the high half for odd d
OtherWord(w, d) ==
    IF d % 2 = 0 THEN <<(w[1] + 1) % Half, w[2]>> ELSE <<w[1], (w[2] + 1) % Half>>

\* program flash holding img (as upload_bin writes it) over erased cells,
\* with word d replaced by another value when d >= 0; all erased when d = -2
ProgFlash(img, d, a) ==
    LET k == (a - FLASH_START_ADDR) \div 4
        c == FileRead(img, 16 * (k \div 4))
        w == IF c = <<>> THEN ERASED_WORD ELSE ChunkWord(c, k % 4)
    IN  IF d = -2 THEN ERASED_WORD ELSE IF k = d THEN OtherWord(w, d) ELSE w

NvmFlash(nvm, a) ==
    LET k == (a - NVM_START_ADDR) \div 4
    IN  ChunkWord(Slice(nvm, 16 * (k \div 4), 16 * (k \div 4) + 16), k % 4)

InitFlash(img, d, nvm) ==
    [a \in Addrs |-> IF a \in NvmAddrs THEN NvmFlash(nvm, a) ELSE ProgFlash(img, d, a)]

\* number of words compare reads for img
NumWords(img) == 4 * ((Len(img) + 15) \div 16)

InitLocals ==
    /\ file_base = 0
    /\ scratch = [k \in 0..3 |-> ZERO_WORD]
    /\ string = "Comparing"
    /\ chunk = <<>>
    /\ filepos = 0
    /\ flash_addr = 0
    /\ i = 0
    /\ data = <<>>
    /\ nvm_data = None
    /\ chunk_idx = 0
    /\ cmp_ret = [Comparing |-> "none", Verifying |-> "none"]
    /\ attempts = 0
    /\ device = 0
    /\ raised = ""
    /\ exit_code = -1
    /\ printed = <<>>
    /\ ops = <<>>

\* recovery runs, and runs without a usable --bin
InitNoImage ==
    /\ \/ recovery = TRUE /\ bin_path = "none"
       \/ recovery = FALSE /\ bin_path \in {"none", "missing"}
    /\ force \in BOOLEAN
    /\ no_reset \in BOOLEAN
    /\ image = <<>>
    /\ \E nvm \in NvmContents :
          /\ flash = InitFlash(PatMixed, -1, nvm)
          /\ nvm_orig = nvm
    /\ seed_ok \in BOOLEAN

\* runs with an image, no --force, seed accepted, reset wanted: every image
\* against erased flash and against flash that already holds it, every NVM content
InitPipeline ==
    /\ recovery = FALSE
    /\ bin_path = "file"
    /\ force = FALSE
    /\ no_reset = FALSE
    /\ image \in Images
    /\ \E nvm \in NvmContents, d \in {-2, -1} :
          /\ flash = InitFlash(image, d, nvm)
          /\ nvm_orig = nvm
    /\ seed_ok = TRUE

\* the same runs under every combination of --force, --no-reset and seed
\* support, for the images of 0 or 5 bytes beyond a whole number of chunks
InitOptions ==
    /\ recovery = FALSE
    /\ bin_path = "file"
    /\ force \in BOOLEAN
    /\ no_reset \in BOOLEAN
    /\ image \in {img \in Images : Len(img) % 16 \in {0, 5}}
    /\ \E nvm \in NvmContents, d \in {-2, -1} :
          /\ flash = InitFlash(image, d, nvm)
          /\ nvm_orig = nvm
    /\ seed_ok \in BOOLEAN

\* runs with an image against flash that differs from it in one word, over
\* an erased NVM region
InitCompare ==
    /\ recovery = FALSE
    /\ bin_path = "file"
    /\ force = FALSE
    /\ no_reset = TRUE
    /\ image \in Images
    /\ \E d \in 0..(NumWords(image) - 1) :
          /\ flash = InitFlash(image, d, Concat([k \in 1..NvmChunks |-> PatErased], NvmChunks))
          /\ nvm_orig = Concat([k \in 1..NvmChunks |-> PatErased], NvmChunks)
    /\ seed_ok = TRUE

Init ==
    /\ pc = "start"
    /\ caller = "upload_bin"
    /\ InitLocals
    /\ (InitNoImage \/ InitPipeline \/ InitOptions \/ InitCompare)

\* ----------------------------------------------------------------- spawn
\* lines 206-223: parse the arguments, choose the branch
Start ==
    /\ pc = "start"
    /\ pc' = IF recovery THEN "recovery_loop" ELSE "create_device"
    /\ UNCHANGED <<argVars, printed, flash, scratch, string, chunk, filepos, flash_addr, i,
                   data, nvm_data, chunk_idx, cmp_ret, attempts, device, raised,
                   exit_code, ops>>

AddressOp(outcome) ==
    Op("create_device", "address", 0, ZERO_WORD, <<>>, ZERO_WORD, outcome)

\* a mutant of RecoveryAttemptOk: the device found in recovery is reset
RecoveryAttemptOk_reset ==
    /\ pc = "recovery_loop"
    /\ ops' = Append(ops, AddressOp("ok"))
    /\ device' = attempts + 1
    /\ pc' = "reset_check"
    /\ printed' = Append(printed, "The device is now in DFU mode.")
    /\ UNCHANGED <<argVars, flash, scratch, string, chunk, filepos, flash_addr, i,
                   data, nvm_data, chunk_idx, cmp_ret, attempts, raised, exit_code>>

\* lines 228-232: the attempt succeeds, break
RecoveryAttemptOk ==
    /\ pc = "recovery_loop"
    /\ ops' = Append(ops, AddressOp("ok"))
    /\ device' = attempts + 1
    /\ pc' = "destroy_router"
    /\ printed' = Append(printed, "The device is now in DFU mode.")
    /\ UNCHANGED <<argVars, flash, scratch, string, chunk, filepos, flash_addr, i,
                   data, nvm_data, chunk_idx, cmp_ret, attempts, raised, exit_code>>

\* a mutant of RecoveryAttemptNoResponse: the exception is not caught
RecoveryAttemptNoResponse_raises ==
    /\ pc = "recovery_loop"
    /\ ops' = Append(ops, AddressOp("NoResponse"))
    /\ raised' = "ResponseError"
    /\ exit_code' = 1
    /\ pc' = "raised"
    /\ UNCHANGED <<argVars, printed, flash, scratch, string, chunk, filepos, flash_addr, i,
                   data, nvm_data, chunk_idx, cmp_ret, attempts, device>>

\* lines 233-234: ResponseError is swallowed and the loop goes round
RecoveryAttemptNoResponse ==
    /\ pc = "recovery_loop"
    /\ attempts < MaxAttempts
    /\ ops' = Append(ops, AddressOp("NoResponse"))
    /\ attempts' = attempts + 1
    /\ UNCHANGED <<argVars, printed, flash, scratch, pc, string, chunk, filepos, flash_addr,
                   i, data, nvm_data, chunk_idx, cmp_ret, device, raised, exit_code>>

\* a mutant of RecoveryAttemptError: the loop swallows any exception
RecoveryAttemptError_retried ==
    /\ pc = "recovery_loop"
    /\ attempts < MaxAttempts
    /\ ops' = Append(ops, AddressOp("Error"))
    /\ attempts' = attempts + 1
    /\ UNCHANGED <<argVars, printed, flash, scratch, pc, string, chunk, filepos, flash_addr,
                   i, data, nvm_data, chunk_idx, cmp_ret, device, raised, exit_code>>

\* lines 229-234: any other exception leaves the loop and the program
RecoveryAttemptError ==
    /\ pc = "recovery_loop"
    /\ ops' = Append(ops, AddressOp("Error"))
    /\ raised' = "Error"
    /\ exit_code' = 1
    /\ pc' = "raised"
    /\ UNCHANGED <<argVars, printed, flash, scratch, string, chunk, filepos, flash_addr, i,
                   data, nvm_data, chunk_idx, cmp_ret, attempts, device>>

\* lines 237-238
CreateDevice ==
    /\ pc = "create_device"
    /\ ops' = Append(ops, AddressOp("ok"))
    /\ device' = 1
    /\ pc' = "check_bin"
    /\ UNCHANGED <<argVars, printed, flash, scratch, string, chunk, filepos, flash_addr, i,
                   data, nvm_data, chunk_idx, cmp_ret, attempts, raised, exit_code>>

\* lines 240-245: no --bin, or --bin is not a file
BinNotFound ==
    /\ pc = "check_bin"
    /\ bin_path # "file"
    /\ raised' = "FileNotFoundError"
    /\ exit_code' = 1
    /\ pc' = "raised"
    /\ UNCHANGED <<argVars, printed, flash, scratch, string, chunk, filepos, flash_addr, i,
                   data, nvm_data, chunk_idx, cmp_ret, attempts, device, ops>>

\* a mutant of BinFound: the pre-flight compare runs whatever --force says
BinFound_compare ==
    /\ pc = "check_bin"
    /\ bin_path = "file"
    /\ pc' = "compare"
    /\ UNCHANGED <<argVars, printed, flash, scratch, string, chunk, filepos, flash_addr, i,
                   data, nvm_data, chunk_idx, cmp_ret, attempts, device, raised,
                   exit_code, ops>>

\* lines 248-254: "(not force) and compare(...)" short-circuits on --force
BinFound ==
    /\ pc = "check_bin"
    /\ bin_path = "file"
    /\ pc' = IF force THEN "upload_bin" ELSE "compare"
    /\ UNCHANGED <<argVars, printed, flash, scratch, string, chunk, filepos, flash_addr, i,
                   data, nvm_data, chunk_idx, cmp_ret, attempts, device, raised,
                   exit_code, ops>>

\* ------------------------------------------------- compare_bin_w_device
\* a mutant of AfterCompare: the pre-flight result is not consulted
AfterCompare_upload(str, r) ==
    IF str = "Comparing" THEN "upload_bin" ELSE "reset_check"

\* what spawn prints when the compare called with str returns r (lines 250, 253)
ComparePrints(str, r) ==
    IF str # "Comparing" THEN <<>>
    ELSE IF r THEN <<"Device firmware matches the bin file. Skipping flash.">>
    ELSE <<"Device firmware differs from bin file. Proceeding with flash.">>

\* a mutant of AfterCompare: the verify compare is run again when it returns
AfterCompare_reverify(str, r) ==
    IF str = "Comparing"
    THEN (IF r THEN "destroy_router" ELSE "upload_bin")
    ELSE "verify"

\* where spawn goes on when the compare called with str returns r
AfterCompare(str, r) ==
    IF str = "Comparing"
    THEN (IF r THEN "destroy_router" ELSE "upload_bin")
    ELSE "reset_check"

\* lines 62-68: open the file, read the first chunk, test the loop condition
CompareBegin(str) ==
    /\ pc = (IF str = "Comparing" THEN "compare" ELSE "verify")
    /\ string' = str
    /\ LET c == FileRead(image, 0) IN
        /\ chunk' = c
        /\ filepos' = Len(c)
        /\ flash_addr' = FLASH_START_ADDR
        /\ IF c = <<>>
           THEN /\ cmp_ret' = [cmp_ret EXCEPT ![str] = "true"]
                /\ pc' = AfterCompare(str, TRUE)
                /\ i' = i
           ELSE /\ cmp_ret' = cmp_ret
                /\ pc' = "cmp_read"
                /\ i' = 0
    /\ printed' = printed \o (IF FileRead(image, 0) = <<>>
                             THEN ComparePrints(str, TRUE) ELSE <<>>)
    /\ UNCHANGED <<argVars, flash, scratch, data, nvm_data, chunk_idx, attempts, device,
                   raised, exit_code, ops>>

ComparePhase(str) == IF str = "Comparing" THEN "compare" ELSE "verify"

\* a mutant of ValueMismatch: a differing word goes unnoticed
ValueMismatch_never(file_value, device_value) == FALSE

\* the test of line 74
ValueMismatch(file_value, device_value) == file_value # device_value

\* lines 69-78: one read_flash_32 and what follows it up to the next read
CompareRead ==
    /\ pc = "cmp_read"
    /\ flash_addr + i * 4 \in Addrs
    /\ LET file_value == FileValue(chunk, i)
           device_value == flash[flash_addr + i * 4]
           next == FileRead(image, filepos)
       IN
        /\ ops' = Append(ops, Op("read_flash_32", ComparePhase(string),
                                 flash_addr + i * 4, ZERO_WORD, <<>>,
                                 device_value, "ok"))
        /\ IF ValueMismatch(file_value, device_value)
           THEN /\ cmp_ret' = [cmp_ret EXCEPT ![string] = "false"]
                /\ pc' = AfterCompare(string, FALSE)
                /\ UNCHANGED <<i, chunk, filepos, flash_addr>>
           ELSE IF i + 1 < BIN_CHUNK_SIZE
           THEN /\ i' = i + 1
                /\ UNCHANGED <<pc, cmp_ret, chunk, filepos, flash_addr>>
           ELSE /\ chunk' = next
                /\ filepos' = filepos + Len(next)
                /\ flash_addr' = flash_addr + BIN_CHUNK_SIZE * 4
                /\ IF next = <<>>
                   THEN /\ cmp_ret' = [cmp_ret EXCEPT ![string] = "true"]
                        /\ pc' = AfterCompare(string, TRUE)
                        /\ i' = i
                   ELSE /\ cmp_ret' = cmp_ret
                        /\ pc' = "cmp_read"
                        /\ i' = 0
    /\ printed' = printed \o
          (IF ValueMismatch(FileValue(chunk, i), flash[flash_addr + i * 4])
           THEN ComparePrints(string, FALSE)
           ELSE IF i + 1 >= BIN_CHUNK_SIZE /\ FileRead(image, filepos) = <<>>
           THEN ComparePrints(string, TRUE)
           ELSE <<>>)
    /\ UNCHANGED <<argVars, flash, scratch, string, data, nvm_data, chunk_idx,
                   attempts, device, raised, exit_code>>

\* ---------------------------------------------------------- read_nvm_region
\* a mutant of UploadBegin: upload_bin goes to the erase without the backup
UploadBegin_no_backup ==
    /\ pc = "upload_bin"
    /\ data' = <<>>
    /\ i' = 0
    /\ pc' = "erase"
    /\ printed' = printed
    /\ UNCHANGED <<argVars, flash, scratch, string, chunk, filepos, flash_addr,
                   nvm_data, chunk_idx, cmp_ret, attempts, device, raised, exit_code, ops>>

\* lines 158-161 and 96-100: upload_bin starts by calling read_nvm_region
UploadBegin ==
    /\ pc = "upload_bin"
    /\ data' = <<>>
    /\ i' = 0
    /\ pc' = "backup_read"
    /\ printed' = Append(printed, "Backing up NVM config region...")
    /\ UNCHANGED <<argVars, flash, scratch, string, chunk, filepos, flash_addr,
                   nvm_data, chunk_idx, cmp_ret, attempts, device, raised, exit_code, ops>>

\* a mutant of NvmResult: only the first chunk is tested for 0xFF
NvmResult_first(d) == IF AllFF(Slice(d, 0, 16)) THEN None ELSE Some(d)

\* what read_nvm_region returns for the bytes it has read (lines 106-111)
NvmResult(d) == IF AllFF(d) THEN None ELSE Some(d)

\* lines 101-111: one read_flash_32; after the last one the result is returned
BackupRead ==
    /\ pc = "backup_read"
    /\ LET value == flash[NVM_START_ADDR + i * 4]
           d == data \o int_to_bytes(value)
       IN
        /\ ops' = Append(ops, Op("read_flash_32", "backup", NVM_START_ADDR + i * 4,
                                 ZERO_WORD, <<>>, value, "ok"))
        /\ data' = d
        /\ IF i + 1 < NVM_SIZE \div 4
           THEN /\ i' = i + 1
                /\ UNCHANGED <<pc, nvm_data>>
           ELSE /\ nvm_data' = NvmResult(d)
                /\ pc' = IF caller = "upload_bin" THEN "erase" ELSE "restore"
                /\ i' = i
    /\ printed' = printed \o
          (IF i + 1 < NVM_SIZE \div 4 THEN <<>>
           ELSE IF AllFF(data \o int_to_bytes(flash[NVM_START_ADDR + i * 4]))
           THEN <<"NVM region is empty, nothing to preserve.">>
           ELSE <<"NVM config region backed up.">>)
    /\ UNCHANGED <<argVars, flash, scratch, string, chunk, filepos, flash_addr,
                   chunk_idx, cmp_ret, attempts, device, raised, exit_code>>

\* --------------------------------------------------------------- upload_bin
\* a mutant of SeedProbe: the rejected seeded call reaches the device and is
\* answered like any other before the unseeded call is made
SeedProbe_answered(name, ph, addr) ==
    IF seed_ok THEN <<>>
    ELSE <<Op(name, ph, addr, ZERO_WORD,
              <<scratch[0], scratch[1], scratch[2], scratch[3]>>, ZERO_WORD, "ok")>>

\* the seeded call that a session without seed support rejects with TypeError
SeedProbe(name, ph, addr) ==
    IF seed_ok THEN <<>>
    ELSE <<Op(name, ph, addr, ZERO_WORD, <<>>, ZERO_WORD, "TypeError")>>

\* where upload_bin goes on for the status erase_all returned (lines 168-171)
AfterErase(result) == IF result # 0 THEN "verify" ELSE "prog_begin"

\* lines 163-171: erase_all, seeded first; a non-zero result returns to spawn
EraseAll ==
    /\ pc = "erase"
    /\ \E result \in {0, 1} :
        /\ ops' = ops \o SeedProbe("erase_all", "erase", 0)
                      \o <<Op("erase_all", "erase", 0, ZERO_WORD, <<>>,
                              <<result, 0>>, "ok")>>
        /\ flash' = IF result = 0 THEN DeviceErased ELSE flash
        /\ pc' = AfterErase(result)
        /\ printed' = printed \o <<"Erasing flash...",
                                   IF result # 0 THEN "Error while erasing!" ELSE "Done.">>
    /\ UNCHANGED <<argVars, scratch, string, chunk, filepos, flash_addr, i, data,
                   nvm_data, chunk_idx, cmp_ret, attempts, device, raised, exit_code>>

\* lines 175-178: open the file, read the first chunk, test the loop condition
ProgramBegin ==
    /\ pc = "prog_begin"
    /\ LET c == FileRead(image, 0) IN
        /\ chunk' = c
        /\ filepos' = Len(c)
        /\ flash_addr' = FLASH_START_ADDR
        /\ pc' = IF c = <<>> THEN "restore" ELSE "prog_scratch"
        /\ i' = 0
    /\ UNCHANGED <<argVars, printed, flash, scratch, string, data, nvm_data, chunk_idx,
                   cmp_ret, attempts, device, raised, exit_code, ops>>

\* the scratch write both loops make (lines 136-141 and 179-184)
WriteScratch(ph, nextpc) ==
    LET value == ScratchValue(chunk, i) IN
    /\ ops' = Append(ops, Op("write_scratch_32", ph, i, value, <<>>, ZERO_WORD, "ok"))
    /\ scratch' = [scratch EXCEPT ![i] = value]
    /\ IF i + 1 < BIN_CHUNK_SIZE
       THEN i' = i + 1 /\ pc' = pc
       ELSE i' = i /\ pc' = nextpc

\* lines 179-184
ProgramWriteScratch ==
    /\ pc = "prog_scratch"
    /\ WriteScratch("program", "prog_commit")
    /\ UNCHANGED <<argVars, printed, flash, string, chunk, filepos, flash_addr, data,
                   nvm_data, chunk_idx, cmp_ret, attempts, device, raised, exit_code>>

ScratchWords == <<scratch[0], scratch[1], scratch[2], scratch[3]>>

\* the checksum a commit returns: the right one, or one that disagrees
CommitReturns == {DeviceChecksum(scratch), WrongChecksum(DeviceChecksum(scratch))}

\* a mutant of ChecksumMismatch: the returned checksum is never looked at
ChecksumMismatch_never(device_checksum, local_checksum) == FALSE

\* the test of line 193
ChecksumMismatch(device_checksum, local_checksum) == device_checksum # local_checksum

\* lines 186-199: commit, seeded first, the checksum test, the next chunk
ProgramCommit ==
    /\ pc = "prog_commit"
    /\ flash_addr \in Addrs
    /\ \E device_checksum \in CommitReturns :
        /\ ops' = ops \o SeedProbe("commit", "program", flash_addr)
                      \o <<Op("commit", "program", flash_addr, ZERO_WORD,
                              ScratchWords, device_checksum, "ok")>>
        /\ flash' = DeviceCommit(flash, scratch, flash_addr)
        /\ IF ChecksumMismatch(device_checksum, calculate_local_checksum(chunk))
           THEN /\ raised' = "SystemExit"
                /\ exit_code' = 1
                /\ pc' = "exited"
                /\ UNCHANGED <<chunk, filepos, flash_addr, i>>
           ELSE LET next == FileRead(image, filepos) IN
                /\ chunk' = next
                /\ filepos' = filepos + Len(next)
                /\ flash_addr' = flash_addr + BIN_CHUNK_SIZE * 4
                /\ pc' = IF next = <<>> THEN "restore" ELSE "prog_scratch"
                /\ i' = 0
                /\ UNCHANGED <<raised, exit_code>>
    /\ printed' = printed \o (IF pc' = "exited" THEN <<"Checksum mismatch">> ELSE <<>>)
    /\ UNCHANGED <<argVars, scratch, string, data, nvm_data, chunk_idx, cmp_ret,
                   attempts, device>>

\* --------------------------------------------------------- write_nvm_region
\* where control goes when write_nvm_region returns
AfterRestore == IF caller = "upload_bin" THEN "verify" ELSE "returned"

\* lines 119-126: nothing to do for None
RestoreBegin ==
    /\ pc = "restore"
    /\ IF ~nvm_data.some
       THEN pc' = AfterRestore /\ chunk_idx' = chunk_idx
       ELSE pc' = "restore_loop" /\ chunk_idx' = 0
    /\ printed' = printed \o (IF nvm_data.some
                             THEN <<"Restoring NVM config region...">> ELSE <<>>)
    /\ UNCHANGED <<argVars, flash, scratch, string, chunk, filepos, flash_addr, i,
                   data, nvm_data, cmp_ret, attempts, device, raised, exit_code, ops>>

\* a mutant of SkipChunk: a chunk is skipped as soon as one byte is 0xFF
SkipChunk_any(c) == \E j \in 1..Len(c) : c[j] = 255

\* a mutant of SkipChunk: no chunk is skipped
SkipChunk_never(c) == FALSE

\* the test of line 132
SkipChunk(c) == AllFF(c)

\* lines 127-134: take the next chunk, skip it when it is all 0xFF
RestoreNext ==
    /\ pc = "restore_loop"
    /\ IF chunk_idx >= NVM_SIZE \div (BIN_CHUNK_SIZE * 4)
       THEN /\ pc' = AfterRestore
            /\ UNCHANGED <<chunk, chunk_idx, i>>
       ELSE LET offset == chunk_idx * (BIN_CHUNK_SIZE * 4)
                c == Slice(nvm_data.val, offset, offset + BIN_CHUNK_SIZE * 4)
            IN  /\ chunk' = c
                /\ IF SkipChunk(c)
                   THEN /\ chunk_idx' = chunk_idx + 1
                        /\ UNCHANGED <<pc, i>>
                   ELSE /\ pc' = "restore_scratch"
                        /\ i' = 0
                        /\ chunk_idx' = chunk_idx
    /\ printed' = printed \o (IF chunk_idx >= NVM_SIZE \div (BIN_CHUNK_SIZE * 4)
                             THEN <<"NVM config region restored.">> ELSE <<>>)
    /\ UNCHANGED <<argVars, flash, scratch, string, filepos, flash_addr, data,
                   nvm_data, cmp_ret, attempts, device, raised, exit_code, ops>>

\* lines 136-141
RestoreWriteScratch ==
    /\ pc = "restore_scratch"
    /\ WriteScratch("restore", "restore_commit")
    /\ UNCHANGED <<argVars, printed, flash, string, chunk, filepos, flash_addr, data,
                   nvm_data, chunk_idx, cmp_ret, attempts, device, raised, exit_code>>

\* lines 143-149: commit, seeded first; the returned checksum is dropped
RestoreCommit ==
    /\ pc = "restore_commit"
    /\ LET addr == NVM_START_ADDR + chunk_idx * (BIN_CHUNK_SIZE * 4) IN
        /\ flash_addr' = addr
        /\ \E device_checksum \in CommitReturns :
            ops' = ops \o SeedProbe("commit", "restore", addr)
                       \o <<Op("commit", "restore", addr, ZERO_WORD, ScratchWords,
                               device_checksum, "ok")>>
        /\ flash' = DeviceCommit(flash, scratch, addr)
    /\ chunk_idx' = chunk_idx + 1
    /\ pc' = "restore_loop"
    /\ UNCHANGED <<argVars, printed, scratch, string, chunk, filepos, i, data, nvm_data,
                   cmp_ret, attempts, device, raised, exit_code>>

\* a mutant of Reset: the device is reset whatever --no-reset says
Reset_always ==
    /\ pc = "reset_check"
    /\ ops' = Append(ops, Op("reset", "reset", 0, ZERO_WORD, <<>>, ZERO_WORD, "ok"))
    /\ pc' = "destroy_router"
    /\ printed' = Append(printed, "Resetting device...")
    /\ UNCHANGED <<argVars, flash, scratch, string, chunk, filepos, flash_addr, i,
                   data, nvm_data, chunk_idx, cmp_ret, attempts, device, raised, exit_code>>

\* ------------------------------------------------------------ end of spawn
\* lines 256-258
Reset ==
    /\ pc = "reset_check"
    /\ ~no_reset
    /\ ops' = Append(ops, Op("reset", "reset", 0, ZERO_WORD, <<>>, ZERO_WORD, "ok"))
    /\ pc' = "destroy_router"
    /\ printed' = Append(printed, "Resetting device...")
    /\ UNCHANGED <<argVars, flash, scratch, string, chunk, filepos, flash_addr, i,
                   data, nvm_data, chunk_idx, cmp_ret, attempts, device, raised, exit_code>>

\* line 256 with --no-reset
SkipReset ==
    /\ pc = "reset_check"
    /\ no_reset
    /\ pc' = "destroy_router"
    /\ UNCHANGED <<argVars, printed, flash, scratch, string, chunk, filepos, flash_addr, i,
                   data, nvm_data, chunk_idx, cmp_ret, attempts, device, raised,
                   exit_code, ops>>

\* line 259, and the normal end of the process
DestroyRouter ==
    /\ pc = "destroy_router"
    /\ pc' = "done"
    /\ exit_code' = 0
    /\ UNCHANGED <<argVars, printed, flash, scratch, string, chunk, filepos, flash_addr, i,
                   data, nvm_data, chunk_idx, cmp_ret, attempts, device, raised, ops>>

\* the device operation the program is about to issue at each position
PendingOp ==
    CASE pc = "create_device"   -> AddressOp("NoResponse")
      [] pc = "cmp_read"        -> Op("read_flash_32", ComparePhase(string),
                                      flash_addr + i * 4, ZERO_WORD, <<>>,
                                      ZERO_WORD, "NoResponse")
      [] pc = "backup_read"     -> Op("read_flash_32", "backup",
                                      NVM_START_ADDR + i * 4, ZERO_WORD, <<>>,
                                      ZERO_WORD, "NoResponse")
      [] pc = "erase"           -> Op("erase_all", "erase", 0, ZERO_WORD, <<>>,
                                      ZERO_WORD, "NoResponse")
      [] pc = "prog_scratch"    -> Op("write_scratch_32", "program", i,
                                      ScratchValue(chunk, i), <<>>, ZERO_WORD,
                                      "NoResponse")
      [] pc = "prog_commit"     -> Op("commit", "program", flash_addr, ZERO_WORD,
                                      ScratchWords, ZERO_WORD, "NoResponse")
      [] pc = "restore_scratch" -> Op("write_scratch_32", "restore", i,
                                      ScratchValue(chunk, i), <<>>, ZERO_WORD,
                                      "NoResponse")
      [] pc = "restore_commit"  -> Op("commit", "restore",
                                      NVM_START_ADDR + chunk_idx * 16, ZERO_WORD,
                                      ScratchWords, ZERO_WORD, "NoResponse")
      [] OTHER                  -> Op("reset", "reset", 0, ZERO_WORD, <<>>,
                                      ZERO_WORD, "NoResponse")

DeviceOpPcs == {"create_device", "cmp_read", "backup_read", "erase", "prog_scratch",
                "prog_commit", "restore_scratch", "restore_commit"}

\* what is printed just before the pending operation is issued (lines 163, 257)
PrintedBefore ==
    IF pc = "erase" THEN <<"Erasing flash...">>
    ELSE IF pc = "reset_check" THEN <<"Resetting device...">>
    ELSE <<>>

\* the rejected seeded call that goes before the pending operation when the
\* session has no seed support (lines 144-147, 164-167, 186-189)
PendingSeedProbe ==
    IF pc = "erase" THEN SeedProbe("erase_all", "erase", 0)
    ELSE IF pc = "prog_commit" THEN SeedProbe("commit", "program", flash_addr)
    ELSE IF pc = "restore_commit"
    THEN SeedProbe("commit", "restore", NVM_START_ADDR + chunk_idx * 16)
    ELSE <<>>

\* a mutant of NoResponse: the exception is caught and the run goes on to its end
NoResponse_caught ==
    /\ pc \in DeviceOpPcs \/ (pc = "reset_check" /\ ~no_reset)
    /\ ops' = ops \o PendingSeedProbe \o <<PendingOp>>
    /\ pc' = "destroy_router"
    /\ printed' = printed \o PrintedBefore
    /\ UNCHANGED <<argVars, flash, scratch, string, chunk, filepos, flash_addr, i,
                   data, nvm_data, chunk_idx, cmp_ret, attempts, device, raised, exit_code>>

\* outside the recovery loop nothing catches ResponseError: the device does
\* not answer the pending operation and the exception ends the program
NoResponse ==
    /\ pc \in DeviceOpPcs \/ (pc = "reset_check" /\ ~no_reset)
    /\ ops' = ops \o PendingSeedProbe \o <<PendingOp>>
    /\ raised' = "ResponseError"
    /\ exit_code' = 1
    /\ pc' = "raised"
    /\ printed' = printed \o PrintedBefore
    /\ UNCHANGED <<argVars, flash, scratch, string, chunk, filepos, flash_addr, i,
                   data, nvm_data, chunk_idx, cmp_ret, attempts, device>>

Next ==
    \/ Start
    \/ RecoveryAttemptOk
    \/ RecoveryAttemptNoResponse
    \/ RecoveryAttemptError
    \/ CreateDevice
    \/ BinNotFound
    \/ BinFound
    \/ \E str \in {"Comparing", "Verifying"} : CompareBegin(str)
    \/ CompareRead
    \/ UploadBegin
    \/ BackupRead
    \/ EraseAll
    \/ ProgramBegin
    \/ ProgramWriteScratch
    \/ ProgramCommit
    \/ RestoreBegin
    \/ RestoreNext
    \/ RestoreWriteScratch
    \/ RestoreCommit
    \/ Reset
    \/ SkipReset
    \/ DestroyRouter
    \/ NoResponse

Spec == Init /\ [][Next]_vars

\* the program has stopped
Terminated == pc \in {"done", "exited", "raised", "returned"}

TypeOK ==
    /\ pc \in {"start", "recovery_loop", "create_device", "check_bin", "compare",
               "cmp_read", "upload_bin", "backup_read", "erase", "prog_begin",
               "prog_scratch", "prog_commit", "restore", "restore_loop",
               "restore_scratch", "restore_commit", "verify", "reset_check",
               "destroy_router", "done", "exited", "raised", "returned"}
    /\ exit_code \in {-1, 0, 1}
    /\ i \in 0..(NVM_SIZE \div 4)
    /\ \A a \in Addrs : flash[a][1] \in 0..(Half - 1) /\ flash[a][2] \in 0..(Half - 1)

\* ---------------------------------------------------------- the running program
\* the interpreter goes on to the next statement as long as there is one, and
\* every call on the device returns or raises
SpecLive == Init /\ [][Next]_vars /\ WF_vars(Next)

\* --------------------------------------------- backup followed by restore
\* write_nvm_region(device, read_nvm_region(device)) with nothing in between
InitRoundTrip ==
    /\ pc = "backup_read"
    /\ caller = "roundtrip"
    /\ InitLocals
    /\ recovery = FALSE
    /\ bin_path = "none"
    /\ force = FALSE
    /\ no_reset = TRUE
    /\ image = <<>>
    /\ \E nvm \in NvmContents :
          /\ flash = InitFlash(<<>>, -2, nvm)
          /\ nvm_orig = nvm
    /\ seed_ok \in BOOLEAN

NextRoundTrip ==
    \/ BackupRead
    \/ RestoreBegin
    \/ RestoreNext
    \/ RestoreWriteScratch
    \/ RestoreCommit
    \/ NoResponse

SpecRoundTrip == InitRoundTrip /\ [][NextRoundTrip]_vars

\* ------------------------------------------- images longer than program flash
\* bytes between the start of program flash and the start of the NVM region
ProgramAreaSize == NVM_START_ADDR - FLASH_START_ADDR

\* what a file of more than ProgramAreaSize bytes holds beyond them
ImageTails == {img \in Images : Len(img) <= NVM_SIZE /\ Len(img) % 16 \in {0, 5}}

\* upload_bin in its program loop with a file of ProgramAreaSize + Len(image)
\* bytes, when the commit of the last chunk below NVM_START_ADDR has returned
\* the right checksum and the next chunk has been read (lines 196-199): the
\* loop has added 16 to flash_addr for each of the ProgramAreaSize / 16 chunks
\* and nothing has looked at the length of the file; erase_all has erased the
\* NVM region, nvm_data holds the backup; ops logs the operations from here on
InitLongImage ==
    /\ caller = "program"
    /\ recovery = FALSE
    /\ bin_path = "file"
    /\ force = TRUE
    /\ no_reset = TRUE
    /\ seed_ok \in BOOLEAN
    /\ file_base = ProgramAreaSize
    /\ image \in ImageTails
    /\ \E nvm \in NvmContents :
          /\ nvm_orig = nvm
          /\ nvm_data = NvmResult(nvm)
          /\ data = nvm
    /\ flash = InitFlash(Concat([k \in 1..ImgChunks |-> PatMixed], ImgChunks), -1,
                         [j \in 1..NVM_SIZE |-> 255])
    /\ scratch = [k \in 0..3 |-> ChunkWord(PatMixed, k)]
    /\ string = "Comparing"
    /\ chunk = FileRead(image, 0)
    /\ filepos = Len(chunk)
    /\ flash_addr = FLASH_START_ADDR + file_base
    /\ pc = IF chunk = <<>> THEN "restore" ELSE "prog_scratch"
    /\ i = 0
    /\ chunk_idx = 0
    /\ cmp_ret = [Comparing |-> "none", Verifying |-> "none"]
    /\ attempts = 0
    /\ device = 1
    /\ raised = ""
    /\ exit_code = -1
    /\ printed = <<>>
    /\ ops = <<>>

\* the rest of upload_bin: the program loop and write_nvm_region
NextLongImage ==
    \/ ProgramWriteScratch
    \/ ProgramCommit
    \/ RestoreBegin
    \/ RestoreNext
    \/ RestoreWriteScratch
    \/ RestoreCommit
    \/ NoResponse

SpecLongImage == InitLongImage /\ [][NextLongImage]_vars

\* while the program loop runs, flash_addr is FLASH_START_ADDR plus the file
\* offset of the chunk in hand
ProgramLoopInvariant ==
    pc \in {"prog_scratch", "prog_commit"} =>
        flash_addr = FLASH_START_ADDR + file_base + filepos - Len(chunk)

\* ------------------------------------------------------ reading the ops log
OpIdx == 1..Len(ops)

\* the operations of kind name issued in phase ph that the device answered
Answered(n, name, ph) ==
    ops[n].op = name /\ ops[n].phase = ph /\ ops[n].outcome = "ok"

\* bytes 4k+1..4k+4 of bs as a little-endian word
WordAt(bs, k) == <<bs[4 * k + 1] + 256 * bs[4 * k + 2],
                   bs[4 * k + 3] + 256 * bs[4 * k + 4]>>

\* the sum of four words modulo 2^32, from the definition
SumOfWords(ws) ==
    LET lo == (ws[1][1] + ws[2][1] + ws[3][1] + ws[4][1])
        hi == (ws[1][2] + ws[2][2] + ws[3][2] + ws[4][2])
        c  == IF lo >= 3 * Half THEN 3 ELSE IF lo >= 2 * Half THEN 2
              ELSE IF lo >= Half THEN 1 ELSE 0
    IN  <<lo - c * Half, (hi + c) % Half>>

\* the four words of image chunk k, short slices read as zero-extended
ImageChunkWords(k) ==
    [j \in 1..4 |->
        LET b(m) == IF 16 * k + 4 * (j - 1) + m <= Len(image)
                    THEN image[16 * k + 4 * (j - 1) + m] ELSE 0
        IN  <<b(1) + 256 * b(2), b(3) + 256 * b(4)>>]

\* a program commit whose returned checksum is not the sum of its chunk's words
ProgramMismatchAt(n) ==
    /\ Answered(n, "commit", "program")
    /\ ops[n].ret # SumOfWords(ImageChunkWords((ops[n].addr - FLASH_START_ADDR) \div 16))

\* the answered program commits are those of chunks 0..k, once each, in order
CommitsAreChunksUpTo(k) ==
    LET cs == SelectSeq(ops, LAMBDA o : o.op = "commit" /\ o.phase = "program"
                                        /\ o.outcome = "ok")
    IN  /\ Len(cs) = k + 1
        /\ \A j \in 1..Len(cs) : cs[j].addr = FLASH_START_ADDR + 16 * (j - 1)

\* C1: when the commit of chunk k in upload_bin returns a checksum other than
\* the sum of that chunk's four words, the commits issued are exactly those of
\* chunks 0..k, that commit is the last device operation of the run, and the
\* process ends with a non-zero exit status.
C1_MismatchStopsProgram ==
    \A n \in OpIdx :
        ProgramMismatchAt(n) =>
            /\ n = Len(ops)
            /\ CommitsAreChunksUpTo((ops[n].addr - FLASH_START_ADDR) \div 16)
            /\ pc = "exited"
            /\ exit_code # 0
            /\ exit_code # -1

\* the second chunk of a two-chunk image was committed and its checksum disagreed
C1_Witness ==
    /\ pc = "exited"
    /\ Len(image) > 16
    /\ ProgramMismatchAt(Len(ops))
    /\ ops[Len(ops)].addr = FLASH_START_ADDR + 16

\* an erase_all that returned a non-zero status
EraseFailedAt(n) == Answered(n, "erase_all", "erase") /\ ops[n].ret # ZERO_WORD

\* C2: after erase_all returns a non-zero status no scratch write, no commit,
\* no verify read and no reset is issued.
C2_EraseFailureAborts ==
    \A n \in OpIdx :
        EraseFailedAt(n) =>
            \A m \in OpIdx :
                m > n => /\ ops[m].op \notin {"write_scratch_32", "commit", "reset"}
                         /\ ~(ops[m].op = "read_flash_32" /\ ops[m].phase = "verify")

\* the NVM region of the device as bytes, each word laid out little-endian
NvmBytesOf(fl) ==
    [b \in 1..NVM_SIZE |->
        LET w == fl[NVM_START_ADDR + 4 * ((b - 1) \div 4)]
            m == (b - 1) % 4
        IN  IF m = 0 THEN w[1] % 256 ELSE IF m = 1 THEN w[1] \div 256
            ELSE IF m = 2 THEN w[2] % 256 ELSE w[2] \div 256]

\* erase_all was answered with status 0
EraseSucceeded == \E n \in OpIdx : Answered(n, "erase_all", "erase") /\ ops[n].ret = ZERO_WORD

\* every answered commit returned the sum of the words it programmed
AllChecksumsRight ==
    \A n \in OpIdx :
        (ops[n].op = "commit" /\ ops[n].outcome = "ok")
            => ops[n].ret = SumOfWords(ops[n].words)

\* upload_bin has returned to spawn after write_nvm_region
RestoreReturned ==
    /\ caller = "upload_bin"
    /\ EraseSucceeded
    /\ pc = "verify" \/ string = "Verifying"

\* C3: when the image ends below the NVM region, erase_all returned 0 and every
\* commit returned the right checksum, the NVM region after restore holds the
\* bytes it held before the backup.
C3_NvmPreserved ==
    (/\ RestoreReturned
     /\ AllChecksumsRight
     /\ FLASH_START_ADDR + Len(image) <= NVM_START_ADDR)
        => NvmBytesOf(flash) = nvm_orig

\* a finished run that flashed a non-empty image over an NVM region holding
\* both an erased chunk and a written one
C3_Witness ==
    /\ pc = "done"
    /\ RestoreReturned
    /\ AllChecksumsRight
    /\ Len(image) > 0
    /\ \E a, b \in 0..(NvmChunks - 1) :
          /\ AllFF(SubSeq(nvm_orig, 16 * a + 1, 16 * a + 16))
          /\ ~AllFF(SubSeq(nvm_orig, 16 * b + 1, 16 * b + 16))
    /\ \E n \in OpIdx : Answered(n, "commit", "restore")

\* a restore commit whose returned checksum is not the sum of its words
RestoreMismatchAt(n) ==
    Answered(n, "commit", "restore") /\ ops[n].ret # SumOfWords(ops[n].words)

\* C4: when a commit of the NVM restore returns a checksum other than the sum
\* of the chunk's four words, the restore fails: no further NVM chunk is
\* committed and neither a verify read nor a reset follows.
C4_RestoreMismatchFatal ==
    \A n \in OpIdx :
        RestoreMismatchAt(n) =>
            \A m \in OpIdx :
                m > n => /\ ops[m].op \notin {"write_scratch_32", "commit", "reset"}
                         /\ ~(ops[m].op = "read_flash_32" /\ ops[m].phase = "verify")

\* word k of the image as compare and program see it: the bytes that exist,
\* little-endian, the missing ones of a short last slice read as zero
ImageWord(k) == ImageChunkWords(k \div 4)[(k % 4) + 1]

\* the image has a word (one with at least one byte) other than 0xFFFFFFFF
ImageHasWrittenWord ==
    \E k \in 0..(NumWords(image) - 1) : 4 * k < Len(image) /\ ImageWord(k) # ERASED_WORD

\* nothing but addressing and pre-flight compare reads has been issued
OnlyPreflightOps ==
    \A n \in OpIdx :
        \/ ops[n].op = "create_device"
        \/ ops[n].op = "read_flash_32" /\ ops[n].phase = "compare"

\* every cell of the program area holds 0xFFFFFFFF
ProgramAreaBlank == \A a \in ProgAddrs : flash[a] = ERASED_WORD

\* C5: after erase_all returned 0 and every commit returned the right checksum,
\* the compare that follows the program returns true; and the compare of an
\* image that has a word other than 0xFFFFFFFF against blank flash returns false.
C5_CompareAroundProgram ==
    /\ (EraseSucceeded /\ AllChecksumsRight /\ cmp_ret["Verifying"] # "none")
            => cmp_ret["Verifying"] = "true"
    /\ (/\ OnlyPreflightOps
        /\ ProgramAreaBlank
        /\ ImageHasWrittenWord
        /\ cmp_ret["Comparing"] # "none")
            => cmp_ret["Comparing"] = "false"

\* a two-chunk image with written words was found different before the flash
\* and equal after it
C5_Witness ==
    /\ pc = "done"
    /\ Len(image) >= 32
    /\ ImageHasWrittenWord
    /\ cmp_ret["Comparing"] = "false"
    /\ EraseSucceeded
    /\ AllChecksumsRight
    /\ cmp_ret["Verifying"] = "true"

\* C6: for an image of a whole number of 16-byte chunks, compare returns true
\* exactly when every little-endian word k of the image equals the device word
\* at FLASH_START_ADDR + 4*k, and false when some word differs.
C6_CompareIsWordEquality ==
    (/\ Len(image) % 16 = 0
     /\ OnlyPreflightOps
     /\ cmp_ret["Comparing"] # "none")
        => (cmp_ret["Comparing"] = "true"
               <=> \A k \in 0..((Len(image) \div 4) - 1) :
                       WordAt(image, k) = flash[FLASH_START_ADDR + 4 * k])
           /\ cmp_ret["Comparing"] \in {"true", "false"}

\* a two-chunk image that differs from the device in its last word only
C6_Witness ==
    /\ Len(image) = 32
    /\ OnlyPreflightOps
    /\ cmp_ret["Comparing"] = "false"
    /\ Len(ops) = 9
    /\ \A k \in 0..6 : WordAt(image, k) = flash[FLASH_START_ADDR + 4 * k]

\* an operation that touches flash or prepares to: a backup read, erase_all,
\* a scratch write or a commit, answered or not
TouchesFlash(o) ==
    \/ o.op \in {"erase_all", "write_scratch_32", "commit"}
    \/ o.op = "read_flash_32" /\ o.phase = "backup"

\* C7: without --force, when the pre-flight compare returned true the run goes
\* straight to its end: no NVM backup read, no erase_all, no scratch write and
\* no commit is issued.
C7_MatchSkipsFlash ==
    (~force /\ cmp_ret["Comparing"] = "true")
        => /\ \A n \in OpIdx : ~TouchesFlash(ops[n])
           /\ pc \in {"destroy_router", "done"}

\* a finished run whose two-chunk image was already on the device
C7_Witness ==
    /\ pc = "done"
    /\ ~force
    /\ Len(image) > 16
    /\ cmp_ret["Comparing"] = "true"
    /\ exit_code = 0

\* the number of addressing attempts that raised ResponseError
FailedAttempts == Cardinality({n \in OpIdx : ops[n] = AddressOp("NoResponse")})

\* C8: in the recovery loop, N attempts that raise ResponseError followed by
\* one that succeeds make exactly N+1 attempts; the loop is left with the
\* handle of the last attempt and no ResponseError reaches the caller.
C8_RecoveryRetries ==
    recovery =>
        /\ raised # "ResponseError"
        /\ (pc \in {"destroy_router", "done"} \/ device # 0) =>
              /\ Len(ops) = FailedAttempts + 1
              /\ ops[Len(ops)] = AddressOp("ok")
              /\ \A m \in 1..(Len(ops) - 1) : ops[m] = AddressOp("NoResponse")
              /\ device = Len(ops)
              /\ raised = ""
              /\ pc \in {"destroy_router", "done"}

\* the device answered the third attempt and the run ended normally
C8_Witness ==
    /\ recovery
    /\ pc = "done"
    /\ FailedAttempts >= 2
    /\ device = FailedAttempts + 1
    /\ exit_code = 0

\* the operations of a phase that reached the device, in order
PhaseOps(ph) == SelectSeq(ops, LAMBDA o : o.phase = ph /\ o.outcome # "TypeError")

\* what an operation asks of the device: kind, address or index, value, words
Request(o) == <<o.op, o.addr, o.val, o.words>>

\* B holds NVM_SIZE/4 backup reads, all answered
AllReadsAnswered(B) ==
    /\ Len(B) = NVM_SIZE \div 4
    /\ \A j \in 1..(NVM_SIZE \div 4) : B[j].outcome = "ok"

BackupReadsDone == AllReadsAnswered(PhaseOps("backup"))

\* the four words the backup reads B returned for NVM chunk idx
BackupChunkWords(B, idx) ==
    <<B[4 * idx + 1].ret, B[4 * idx + 2].ret, B[4 * idx + 3].ret, B[4 * idx + 4].ret>>

BackupChunkErased(B, idx) == \A j \in 1..4 : BackupChunkWords(B, idx)[j] = ERASED_WORD

\* the requests a restore of the first n chunks is to make: for each chunk that
\* is not all 0xFF, scratch writes 0..3 with its words and a commit at its address
RECURSIVE RestoreRequests(_, _)
RestoreRequests(B, n) ==
    IF n = 0 THEN <<>>
    ELSE RestoreRequests(B, n - 1) \o
         (IF BackupChunkErased(B, n - 1) THEN <<>>
          ELSE [j \in 1..5 |->
                  IF j <= 4
                  THEN <<"write_scratch_32", j - 1, BackupChunkWords(B, n - 1)[j], <<>>>>
                  ELSE <<"commit", NVM_START_ADDR + 16 * (n - 1), ZERO_WORD,
                         BackupChunkWords(B, n - 1)>>])

IsPrefix(a, b) == Len(a) <= Len(b) /\ \A j \in 1..Len(a) : a[j] = b[j]

\* C9: backup followed at once by restore issues, for each NVM chunk that is
\* not all 0xFF and for no other, four scratch writes and one commit at
\* NVM_START_ADDR + 16*idx carrying the four words the backup read there; when
\* the backup is None, restore issues nothing.
C9_RestoreWritesBackedUpChunks ==
    LET B == PhaseOps("backup")
        R == PhaseOps("restore")
        got == [j \in 1..Len(R) |-> Request(R[j])]
        want == RestoreRequests(B, NvmChunks)
    IN  AllReadsAnswered(B) =>
            /\ IsPrefix(got, want)
            /\ pc = "returned" => got = want
            /\ (pc \in {"restore", "returned"} /\ ~nvm_data.some) => got = <<>>

\* a finished round trip over a region with a written chunk, which was
\* committed, and an erased one, which was not
C9_Witness ==
    /\ pc = "returned"
    /\ BackupReadsDone
    /\ \E a, b \in 0..(NvmChunks - 1) :
          /\ BackupChunkErased(PhaseOps("backup"), a)
          /\ ~BackupChunkErased(PhaseOps("backup"), b)
    /\ Len(PhaseOps("restore")) >= 5
    /\ Len(PhaseOps("restore")) < 5 * NvmChunks

\* read_nvm_region has returned to upload_bin
BackupReturned == pc = "erase" \/ \E n \in OpIdx : ops[n].phase = "erase"

\* the bytes of the words the backup read, each word little-endian, in order
BytesRead(B) ==
    [b \in 1..(4 * Len(B)) |->
        LET w == B[((b - 1) \div 4) + 1].ret
            m == (b - 1) % 4
        IN  IF m = 0 THEN w[1] % 256 ELSE IF m = 1 THEN w[1] \div 256
            ELSE IF m = 2 THEN w[2] % 256 ELSE w[2] \div 256]

\* C10: backup issues read_flash_32 at NVM_START_ADDR + 4*i for i = 0, 1, ...,
\* NVM_SIZE/4 - 1 and nothing else; it returns None exactly when every byte
\* read is 0xFF and otherwise the NVM_SIZE bytes read, little-endian in address
\* order; the only way it ends the run is a read the device does not answer.
C10_BackupReadsRegion ==
    LET B == PhaseOps("backup")
        bytes == BytesRead(B)
    IN
    /\ Len(B) <= NVM_SIZE \div 4
    /\ \A j \in 1..Len(B) :
          B[j].op = "read_flash_32" /\ B[j].addr = NVM_START_ADDR + 4 * (j - 1)
    /\ BackupReturned =>
          /\ AllReadsAnswered(B)
          /\ bytes = nvm_orig
          /\ Len(bytes) = NVM_SIZE
          /\ nvm_data.some <=> (\E b \in 1..NVM_SIZE : bytes[b] # 255)
          /\ nvm_data.some => nvm_data.val = bytes
    /\ (Len(ops) > 0 /\ ops[Len(ops)].phase = "backup" /\ Terminated) =>
          /\ ops[Len(ops)].outcome = "NoResponse"
          /\ raised = "ResponseError"

\* the backup returned a region that holds an erased chunk and a written one
C10_Witness ==
    /\ pc = "erase"
    /\ nvm_data.some
    /\ Len(nvm_data.val) = NVM_SIZE
    /\ \E a, b \in 0..(NvmChunks - 1) :
          /\ AllFF(SubSeq(nvm_data.val, 16 * a + 1, 16 * a + 16))
          /\ ~AllFF(SubSeq(nvm_data.val, 16 * b + 1, 16 * b + 16))

\* C11: without --recovery, when --bin is absent or names no file, the
\* FileNotFoundError is raised before the device is addressed and before any
\* device operation is issued.
C11_ImageCheckedFirst ==
    (~recovery /\ raised = "FileNotFoundError") => ops = <<>>

\* the compare after the flash returned false
VerifyFailed == cmp_ret["Verifying"] = "false"

\* the user was told of the failed verify: by a message of the verify
\* compare, by an exception or by a non-zero exit status
VerifyFailureReported ==
    \/ ComparePrints("Verifying", FALSE) # <<>>
    \/ raised # ""
    \/ exit_code > 0

\* C12: when the verify compare returns false the run reports the mismatch,
\* and no erase_all or commit is issued after the verify reads.
C12_VerifyMismatchReported ==
    (VerifyFailed /\ Terminated) =>
        /\ VerifyFailureReported
        /\ \A n, m \in OpIdx :
              (n < m /\ ops[n].phase = "verify")
                  => ops[m].op \notin {"erase_all", "commit"}

\* the calls made in the seeded form that the session rejected with TypeError
SeededRejections == {n \in OpIdx : ops[n].outcome = "TypeError"}

\* C13: against a session that rejects the seeded form, the seeded form is
\* tried at most once in a run; every later erase_all or commit goes out
\* unseeded directly.
C13_SeedProbedOnce ==
    ~seed_ok => Cardinality(SeededRejections) <= 1

\* the answered operations of kind name in phase ph
AnsweredOps(name, ph) == {n \in OpIdx : Answered(n, name, ph)}

\* the place of a phase in the order of a run
PhaseRank ==
    [address |-> 0, compare |-> 1, backup |-> 2, erase |-> 3, program |-> 4,
     restore |-> 5, verify |-> 6, reset |-> 7]

\* C14: in a run that flashes the device operations come in the order backup
\* reads, erase_all, program scratch writes and commits, restore commits,
\* verify reads, reset: the whole NVM region is read before erase_all is
\* issued, no commit precedes the successful erase_all, every image chunk is
\* committed before the first restore operation, and reset is the last operation.
C14_PipelineOrder ==
    /\ \A n \in 1..(Len(ops) - 1) :
          PhaseRank[ops[n].phase] <= PhaseRank[ops[n + 1].phase]
    /\ (\E n \in OpIdx : ops[n].phase = "erase") =>
          Cardinality(AnsweredOps("read_flash_32", "backup")) = NVM_SIZE \div 4
    /\ (\E n \in OpIdx : ops[n].phase = "restore") =>
          Cardinality(AnsweredOps("commit", "program")) = (Len(image) + 15) \div 16
    /\ \A n \in OpIdx :
          /\ ops[n].op = "commit" =>
                \E m \in 1..(n - 1) :
                    Answered(m, "erase_all", "erase") /\ ops[m].ret = ZERO_WORD
          /\ ops[n].op = "reset" => n = Len(ops)

\* a finished run that went through every phase of the pipeline
C14_Witness ==
    /\ pc = "done"
    /\ caller = "upload_bin"
    /\ \E n \in OpIdx : Answered(n, "commit", "program")
    /\ \E n \in OpIdx : Answered(n, "commit", "restore")
    /\ \E n \in OpIdx : Answered(n, "read_flash_32", "verify")
    /\ Answered(Len(ops), "reset", "reset")

\* the four little-endian words of a chunk, a short chunk zero-extended
ChunkWordsOf(c) ==
    [j \in 1..4 |->
        LET b(m) == IF 4 * (j - 1) + m <= Len(c) THEN c[4 * (j - 1) + m] ELSE 0
        IN  <<b(1) + 256 * b(2), b(3) + 256 * b(4)>>]

\* the 16 bytes of the chunk made of the words ws[a], ws[b], ws[c], ws[d]
ChunkOfWords(ws, a, b, c, d) ==
    int_to_bytes(ws[a]) \o int_to_bytes(ws[b]) \o int_to_bytes(ws[c]) \o int_to_bytes(ws[d])

\* C15: the local checksum of the chunk being committed is the sum of its four
\* little-endian words modulo 2^32, lies in 0..2^32-1, and is the same for
\* every permutation of the four words.
C15_ChecksumIsWordSum ==
    pc = "prog_commit" =>
        LET cs == calculate_local_checksum(chunk)
            ws == ChunkWordsOf(chunk)
        IN  /\ cs = SumOfWords(ws)
            /\ cs[1] \in 0..(Half - 1)
            /\ cs[2] \in 0..(Half - 1)
            /\ \A a, b, c, d \in 1..4 :
                  {a, b, c, d} = 1..4 =>
                      calculate_local_checksum(ChunkOfWords(ws, a, b, c, d)) = cs

\* a chunk of four different words whose sum carries out of the low half and
\* wraps around 2^32 is about to be committed
C15_Witness ==
    /\ pc = "prog_commit"
    /\ LET ws == ChunkWordsOf(chunk)
       IN  /\ \A a, b \in 1..4 : a # b => ws[a] # ws[b]
           /\ ws[1][1] + ws[2][1] + ws[3][1] + ws[4][1] >= Half
           /\ ws[1][2] + ws[2][2] + ws[3][2] + ws[4][2] >= Half

\* the program loop of upload_bin has run to the end of the file
ProgramDone ==
    /\ caller = "upload_bin"
    /\ EraseSucceeded
    /\ pc \in {"restore", "restore_loop", "restore_scratch", "restore_commit",
               "verify", "cmp_read", "reset_check", "destroy_router", "done"}

\* the chunks of 16 bytes the image holds in full, and those it holds in part
WholeChunks == Len(image) \div 16
StartedChunks == (Len(image) + 15) \div 16

\* the compare phase ph went through the whole file and returned true
CompareTrue(ph) ==
    IF ph = "compare" THEN cmp_ret["Comparing"] = "true"
    ELSE cmp_ret["Verifying"] = "true"

\* the statement of C16 as the specification words it: a remainder of fewer than
\* 16 bytes is end-of-stream, so floor(length/16) chunks are compared or programmed
C16_RemainderIsEndOfStream ==
    Len(image) % 16 # 0 =>
        /\ Cardinality(AnsweredOps("commit", "program")) <= WholeChunks
        /\ Cardinality(AnsweredOps("write_scratch_32", "program")) <= 4 * WholeChunks
        /\ \A ph \in {"compare", "verify"} :
              Cardinality(AnsweredOps("read_flash_32", ph)) <= 4 * WholeChunks

\* C16: a trailing remainder of fewer than 16 bytes is compared and programmed
\* as a last chunk whose missing bytes are zero: a compare that returns true has
\* read four words for each of the ceil(length/16) chunks, and a program loop
\* that has finished has issued four scratch writes and one commit for each of
\* them, the commit carrying the chunk's zero-extended words.
C16_RemainderIsZeroExtendedChunk ==
    /\ \A n \in AnsweredOps("commit", "program") :
          LET k == (ops[n].addr - FLASH_START_ADDR) \div 16
          IN  k < StartedChunks /\ ops[n].words = ImageChunkWords(k)
    /\ ProgramDone =>
          /\ Cardinality(AnsweredOps("commit", "program")) = StartedChunks
          /\ Cardinality(AnsweredOps("write_scratch_32", "program")) = 4 * StartedChunks
    /\ \A ph \in {"compare", "verify"} :
          CompareTrue(ph) =>
              Cardinality(AnsweredOps("read_flash_32", ph)) = 4 * StartedChunks

\* an image with a trailing remainder has been programmed and verified
C16_Witness ==
    /\ Len(image) % 16 # 0
    /\ Len(image) > 16
    /\ ProgramDone
    /\ CompareTrue("verify")
    /\ \E n \in AnsweredOps("commit", "program") :
          ops[n].addr = FLASH_START_ADDR + 16 * WholeChunks

\* the reset operations issued, answered or not
ResetOps == {n \in OpIdx : ops[n].op = "reset"}

\* the run skipped the flash because the device already held the image
ShortCircuited == cmp_ret["Comparing"] = "true"

\* C17: a run whose pipeline completes issues reset exactly once without
\* --no-reset and never with it; a run that short-circuits because the image
\* already matches never issues reset.
C17_ResetCallerControlled ==
    /\ no_reset => ResetOps = {}
    /\ ShortCircuited => ResetOps = {}
    /\ Cardinality(ResetOps) <= 1
    /\ (pc = "done" /\ ProgramDone /\ ~no_reset) =>
          (Cardinality(ResetOps) = 1 /\ Answered(Len(ops), "reset", "reset"))

\* a completed flash without --no-reset has reset the device
C17_Witness ==
    /\ pc = "done"
    /\ ProgramDone
    /\ CompareTrue("verify")
    /\ ~no_reset
    /\ Cardinality(ResetOps) = 1

\* operation n was issued inside the retry loop of --recovery
InRecoveryLoop(n) == recovery /\ ops[n].phase = "address"

\* C18: outside the recovery loop an operation the device does not answer ends
\* the run with ResponseError: it is the last device operation, it is not
\* retried, and the process ends with a non-zero status.
C18_NoResponseFatal ==
    \A n \in OpIdx :
        (ops[n].outcome = "NoResponse" /\ ~InRecoveryLoop(n)) =>
            /\ n = Len(ops)
            /\ pc = "raised"
            /\ raised = "ResponseError"
            /\ exit_code > 0

\* a restore commit that the device did not answer ended the run
C18_Witness ==
    /\ ops # <<>>
    /\ ops[Len(ops)].op = "commit"
    /\ ops[Len(ops)].phase = "restore"
    /\ ops[Len(ops)].outcome = "NoResponse"
    /\ pc = "raised"

\* the j-th request of a program loop that runs undisturbed: for chunk k the
\* scratch writes 0..3 with the chunk's words, then the commit at its address
ProgramRequest(j) ==
    LET k == (j - 1) \div 5
        r == (j - 1) % 5
    IN  IF r < 4
        THEN <<"write_scratch_32", r, ImageWord(4 * k + r), <<>>>>
        ELSE <<"commit", FLASH_START_ADDR + 16 * k, ZERO_WORD, ImageChunkWords(k)>>

\* C19: the program loop issues, for chunk k = 0, 1, 2, ... in this order and
\* once each, scratch writes 0, 1, 2, 3 carrying the chunk's four little-endian
\* words and then one commit at FLASH_START_ADDR + 16*k, at which the four
\* scratch registers hold the words of chunk k.
C19_ProgramChunkByChunk ==
    LET P == PhaseOps("program")
    IN  /\ Len(P) <= 5 * StartedChunks
        /\ \A j \in 1..Len(P) : Request(P[j]) = ProgramRequest(j)

\* two chunks of different content have been committed
C19_Witness ==
    /\ Cardinality(AnsweredOps("commit", "program")) >= 2
    /\ ImageChunkWords(0) # ImageChunkWords(1)
    /\ \A j \in 1..4 : ImageChunkWords(0)[j] # ImageChunkWords(1)[j]

\* address a lies in the NVM region
InNvmRegion(a) == a >= NVM_START_ADDR /\ a < NVM_START_ADDR + NVM_SIZE

\* C20: no program commit is issued at an address inside the NVM region
\* [NVM_START_ADDR, NVM_START_ADDR + NVM_SIZE), whatever the image length, so
\* every commit of the NVM restore targets cells that are all 0xFF at that moment.
C20_RestoreIntoBlankCells ==
    /\ \A n \in OpIdx :
          (ops[n].op = "commit" /\ ops[n].phase = "program") => ~InNvmRegion(ops[n].addr)
    /\ pc = "restore_commit" =>
          \A j \in 0..3 : flash[NVM_START_ADDR + 16 * chunk_idx + 4 * j] = ERASED_WORD

\* the key of cmp_ret for the compare whose reads are logged in phase ph
CompareString(ph) == IF ph = "compare" THEN "Comparing" ELSE "Verifying"

\* what the operations logged in phase ph say of one compare: they are reads of
\* the words at FLASH_START_ADDR, +4, +8, ... in this order, every read that is
\* followed by another returned the image word, and the compare has returned
\* false exactly when the last read was answered with another value
CompareReadsInOrder(ph) ==
    LET R == PhaseOps(ph)
        last == Len(R)
    IN  /\ \A j \in 1..last :
              /\ R[j].op = "read_flash_32"
              /\ R[j].addr = FLASH_START_ADDR + 4 * (j - 1)
              /\ j < last => (R[j].outcome = "ok" /\ R[j].ret = ImageWord(j - 1))
        /\ cmp_ret[CompareString(ph)] = "false"
              <=> (/\ last > 0
                   /\ R[last].outcome = "ok"
                   /\ R[last].ret # ImageWord(last - 1))

\* a step taken inside compare leaves flash, NVM and the scratch registers alone
CompareFrame ==
    pc \in {"compare", "verify", "cmp_read"} => (flash' = flash /\ scratch' = scratch)

\* C21: compare issues only read_flash_32 operations, in ascending address
\* order, and leaves flash, NVM and the scratch registers as they are; after
\* the first read whose value differs from the image word it issues no further
\* read and returns false.
C21_CompareOnlyReads ==
    /\ [](CompareReadsInOrder("compare") /\ CompareReadsInOrder("verify"))
    /\ [][CompareFrame]_vars

\* a pre-flight compare that stopped at a word in the middle of the image
C21_Witness ==
    /\ cmp_ret["Comparing"] = "false"
    /\ OnlyPreflightOps
    /\ Len(PhaseOps("compare")) = 3
    /\ Len(image) = 32

\* the device holds the image: every image word is in its cell of program flash
DeviceHoldsImage ==
    \A k \in 0..(NumWords(image) - 1) : flash[FLASH_START_ADDR + 4 * k] = ImageWord(k)

\* the chunks of the NVM region that held something other than 0xFF at the start
WrittenNvmChunks ==
    {c \in 0..(NvmChunks - 1) : ~AllFF(SubSeq(nvm_orig, 16 * c + 1, 16 * c + 16))}

\* C22: with --force the pre-flight compare issues no device read and its
\* result is never produced, and a run that reaches its end has gone through
\* backup, erase_all and verify, and, erase_all having returned 0, through the
\* program of every chunk and the restore of every written NVM chunk, whether
\* or not the device already held the image.
C22_ForceRunsPipeline ==
    (force /\ bin_path = "file" /\ ~recovery) =>
        /\ \A n \in OpIdx : ops[n].phase # "compare"
        /\ cmp_ret["Comparing"] = "none"
        /\ pc # "compare"
        /\ pc = "done" =>
              /\ Cardinality(AnsweredOps("read_flash_32", "backup")) = NVM_SIZE \div 4
              /\ \E n \in OpIdx : Answered(n, "erase_all", "erase")
              /\ cmp_ret["Verifying"] # "none"
              /\ EraseSucceeded =>
                    /\ Cardinality(AnsweredOps("commit", "program")) = StartedChunks
                    /\ Cardinality(AnsweredOps("commit", "restore"))
                          = Cardinality(WrittenNvmChunks)

\* a forced run is about to erase a device that already holds the image
C22_Witness ==
    /\ force
    /\ pc = "erase"
    /\ Len(image) >= 32
    /\ DeviceHoldsImage
    /\ Cardinality(AnsweredOps("read_flash_32", "backup")) = NVM_SIZE \div 4

\* the calls that reached the device: the log without the rejected seeded calls
Effective == SelectSeq(ops, LAMBDA o : o.outcome # "TypeError")

\* the erase_all and commit calls that reached the device, as <<kind, address, words>>
EffectiveWrites ==
    LET W == SelectSeq(Effective, LAMBDA o : o.op \in {"erase_all", "commit"})
    IN  [j \in 1..Len(W) |-> <<W[j].op, W[j].addr, W[j].words>>]

\* the written chunks of the NVM region in ascending order
WrittenNvmChunkSeq ==
    SelectSeq([c \in 1..NvmChunks |-> c - 1],
              LAMBDA c : ~AllFF(SubSeq(nvm_orig, 16 * c + 1, 16 * c + 16)))

\* the erase_all and commit calls of a run that nothing stops, whatever the
\* session does with the seed: one erase_all, then one commit for each image
\* chunk in ascending order, then one commit for each written chunk of the NVM
\* region; ReferenceWrite(j) is the j-th of them
ReferenceLen == 1 + StartedChunks + Cardinality(WrittenNvmChunks)

ReferenceWrite(j) ==
    IF j = 1 THEN <<"erase_all", 0, <<>>>>
    ELSE IF j <= 1 + StartedChunks
    THEN <<"commit", FLASH_START_ADDR + 16 * (j - 2), ImageChunkWords(j - 2)>>
    ELSE LET c == WrittenNvmChunkSeq[j - 1 - StartedChunks]
         IN  <<"commit", NVM_START_ADDR + 16 * c,
               [k \in 1..4 |-> WordAt(nvm_orig, 4 * c + k - 1)]>>

\* every rejected seeded call is followed at once by the same call, to the same
\* address, in the unseeded form; there is none when the session takes the seed
FallbackFollows ==
    \A n \in OpIdx :
        ops[n].outcome = "TypeError" =>
            /\ ~seed_ok
            /\ n < Len(ops)
            /\ ops[n + 1].outcome # "TypeError"
            /\ ops[n + 1].op = ops[n].op
            /\ ops[n + 1].phase = ops[n].phase
            /\ ops[n + 1].addr = ops[n].addr

\* the run stopped at a program commit exactly when that commit returned a
\* checksum other than the sum of the chunk's words
ChecksumDecisions ==
    /\ \A n \in OpIdx : ProgramMismatchAt(n) => (n = Len(ops) /\ pc = "exited")
    /\ pc = "exited" => (ops # <<>> /\ ProgramMismatchAt(Len(ops)))

\* C23: whether or not the session takes the seed, the erase_all and commit
\* calls that reach the device are the same ones, a prefix of one erase_all,
\* one commit per image chunk and one commit per written NVM chunk, with the
\* same addresses and words; the run stops on the same checksums; and a run
\* that ends after a successful erase leaves the image in program flash and
\* the NVM region as it was. A rejected seeded call is followed by the same
\* call unseeded and adds no call that reaches the device.
C23_SeedFallbackTransparent ==
    (caller = "upload_bin" /\ bin_path = "file" /\ ~recovery) =>
        LET E == EffectiveWrites
        IN  /\ FallbackFollows
            /\ Len(E) <= ReferenceLen
            /\ \A j \in 1..Len(E) : E[j] = ReferenceWrite(j)
            /\ ChecksumDecisions
            /\ (pc = "done" /\ EraseSucceeded) =>
                  /\ Len(E) = ReferenceLen
                  /\ DeviceHoldsImage
                  /\ NvmBytesOf(flash) = nvm_orig

\* a session without seed support has been through erase, program and restore
C23_Witness ==
    /\ ~seed_ok
    /\ pc = "done"
    /\ EraseSucceeded
    /\ \E n \in OpIdx : ops[n].outcome = "TypeError" /\ ops[n].phase = "erase"
    /\ \E n \in OpIdx : ops[n].outcome = "TypeError" /\ ops[n].phase = "program"
    /\ \E n \in OpIdx : ops[n].outcome = "TypeError" /\ ops[n].phase = "restore"
    /\ Len(image) >= 32

\* every addressing attempt made so far raised ResponseError
OnlyNoResponseSoFar == \A n \in OpIdx : ops[n] = AddressOp("NoResponse")

\* C24: in the recovery loop, as long as every addressing attempt raises
\* ResponseError the program stays in the loop, with no exception and no exit
\* status, however many attempts it has made; the first attempt that succeeds
\* is the last one and leaves the loop; an attempt that fails with another
\* error is the last one too and ends the program with that error.
C24_RecoveryLoopExits ==
    recovery =>
        /\ OnlyNoResponseSoFar =>
              /\ pc \in {"start", "recovery_loop"}
              /\ raised = ""
              /\ exit_code = -1
              /\ attempts = Len(ops)
        /\ \A n \in OpIdx :
              /\ n < Len(ops) => ops[n] = AddressOp("NoResponse")
              /\ ops[n] = AddressOp("ok") =>
                    (pc \in {"destroy_router", "done"} /\ raised = "")
              /\ ops[n] = AddressOp("Error") =>
                    (pc = "raised" /\ raised = "Error" /\ exit_code > 0)
              /\ ops[n] \in {AddressOp("NoResponse"), AddressOp("ok"), AddressOp("Error")}

\* after two attempts without response the third failed with another error
C24_Witness ==
    /\ recovery
    /\ Len(ops) = 3
    /\ ops[1] = AddressOp("NoResponse")
    /\ ops[2] = AddressOp("NoResponse")
    /\ ops[3] = AddressOp("Error")
    /\ pc = "raised"

\* the loops stay within their bounds: backup reads at most NVM_SIZE/4 words,
\* restore examines at most NVM_SIZE/16 chunks, program commits and each
\* compare reads at most as many chunks as the image has begun
LoopsBounded ==
    /\ Cardinality({n \in OpIdx : ops[n].phase = "backup"}) <= NVM_SIZE \div 4
    /\ chunk_idx <= NVM_SIZE \div 16
    /\ Cardinality({n \in OpIdx : ops[n].op = "commit" /\ ops[n].phase = "program"
                                    /\ ops[n].outcome # "TypeError"}) <= StartedChunks
    /\ \A ph \in {"compare", "verify"} :
          Cardinality({n \in OpIdx : ops[n].phase = ph}) <= 4 * StartedChunks

\* the end states of a run whose every request was answered: the flash was
\* skipped or completed (also after an erase error), or a checksum mismatched
AnsweredRunEnded ==
    /\ pc \in {"done", "exited"}
    /\ pc = "done" =>
          \/ cmp_ret["Comparing"] = "true"
          \/ /\ Cardinality(AnsweredOps("read_flash_32", "backup")) = NVM_SIZE \div 4
             /\ EraseSucceeded => chunk_idx = (IF nvm_data.some THEN NVM_SIZE \div 16 ELSE 0)

\* some request was not answered
SomeNoResponse == \E n \in OpIdx : ops[n].outcome = "NoResponse"

\* C25: without --recovery and with an image file, the loops stay within their
\* bounds and the run ends: when the device answers every request, in one of
\* the states skipped, completed, erase error or checksum mismatch.
C25_RunTerminates ==
    /\ []LoopsBounded
    /\ (~recovery /\ bin_path = "file") => <>(AnsweredRunEnded \/ SomeNoResponse)

\* a completed flash of a two-chunk image that restored the whole NVM region
C25_Witness ==
    /\ pc = "done"
    /\ ~recovery
    /\ Len(image) = 32
    /\ EraseSucceeded
    /\ nvm_data.some
    /\ chunk_idx = NVM_SIZE \div 16
    /\ ~SomeNoResponse

\* in a recovery run nothing but addressing attempts has been issued, and the
\* program is in the loop, past it, or ended
OnlyAddressing ==
    recovery =>
        /\ \A n \in OpIdx : ops[n].op = "create_device" /\ ops[n].phase = "address"
        /\ pc \in {"start", "recovery_loop", "destroy_router", "done", "raised"}

\* a step of a recovery run leaves flash, NVM and the scratch registers alone
RecoveryFrame == recovery => (flash' = flash /\ scratch' = scratch)

\* C26: a run with --recovery only attempts to address the device: it issues
\* no read_flash_32, write_scratch_32, commit, erase_all or reset, and flash,
\* NVM and scratch registers stay as they were, whether or not the device
\* ever responds.
C26_RecoveryTouchesNothing ==
    /\ []OnlyAddressing
    /\ [][RecoveryFrame]_vars

\* a recovery run given --force and no --no-reset ended after the device
\* answered the second attempt
C26_Witness ==
    /\ recovery
    /\ force
    /\ ~no_reset
    /\ pc = "done"
    /\ Len(ops) = 2
    /\ ops[2] = AddressOp("ok")

====
